---- MODULE Spec2Model ----
(***************************************************************************)
(* Model of the croissant operation graph (Join, Concatenate) and of the   *)
(* structure-graph validation pass (FileSet.check, Field.check,            *)
(* Field.data_type, scripts/validate.py).                                  *)
(*                                                                         *)
(* Strings are sequences of one-character strings: "ab" is <<"a","b">>.    *)
(* Python's None is modelled by records that carry a flag, so that every   *)
(* value of one kind has one shape.                                        *)
(***************************************************************************)
EXTENDS Integers, Sequences, FiniteSets, TLC

VARIABLES
    \* ---- operation graph: Join ----
    cache,      \* cached result of each predecessor operation (uid -> table)
    left,       \* the `left` Source handed to Join.__call__
    right,      \* the `right` Source handed to Join.__call__
    args,       \* the uids of the predecessors whose results were passed as *args
    out,        \* what Join.__call__ ended in
    \* ---- apply_transform_fn ----
    rxValue, rxTransform, rxOut,
    \* ---- operation graph: Concatenate ----
    paths, catOut,
    \* ---- structure graph validation ----
    doc,        \* the document: nodes, their properties and predecessor lists
    issues,     \* the Issue Log of the validation run
    pos,        \* how many nodes of the document the pass has handled
    resolved,   \* what data_type gave for every node handled so far
    outcome,    \* how Dataset(file) ended, as scripts/validate.py sees it
    \* ---- openmlconverter: _lenient_date_parser ----
    dateValue,  \* the value handed to _lenient_date_parser
    dateParse,  \* how dateutil.parser.parse(value) ends for it
    dateOut,    \* how _lenient_date_parser ended
    \* ---- openmlconverter: _remove_empty_values ----
    dctIn,      \* the dictionary as it was handed to _remove_empty_values
    dct,        \* the dictionary, which the function changes in place
    cleaned     \* whether _remove_empty_values has returned

joinVars == <<cache, left, right, args, out>>
rxVars   == <<rxValue, rxTransform, rxOut>>
catVars  == <<paths, catOut>>
valVars  == <<doc, issues, pos, resolved, outcome>>
dateVars == <<dateValue, dateParse, dateOut>>
dctVars  == <<dctIn, dct, cleaned>>
vars     == <<cache, left, right, args, out, rxValue, rxTransform, rxOut,
              paths, catOut, doc, issues, pos, resolved, outcome,
              dateValue, dateParse, dateOut, dctIn, dct, cleaned>>

(***************************************************************************)
(* Bounds of the model.                                                    *)
(***************************************************************************)
MaxRows == 2        \* rows of a predecessor's table
MaxArgs == 3        \* positional inputs handed to one Join call
MaxValueLen == 2    \* characters of a value given to apply_transform_fn
MaxAtoms == 2       \* atoms of a regular expression
MaxPaths == 2       \* paths handed to one Concatenate call
MaxNodes == 3       \* nodes of a document besides the dataset
MaxPreds == 2       \* predecessors of one node in the graph

Chars == {"a", "b"}

RECURSIVE StringsUpTo(_)
StringsUpTo(n) ==
    IF n = 0 THEN {<<>>}
    ELSE LET shorter == StringsUpTo(n - 1)
         IN  shorter \cup {Append(s, c) : s \in shorter, c \in Chars}

\* Python's re, for the patterns of the model.
\*
\* A pattern is a sequence of atoms [cls, q, cap].  cls is a character or "."
\* (any character); q is "one", "star" (greedy) or "opt" (greedy); cap says
\* where the capture group is.  The regular expression an atom stands for:
\*    cap = "no"  :   c      c*      c?
\*    cap = "in"  :  (c)    (c*)    (c?)
\*    cap = "out" :  (c)    (c)*    (c)?
\* re.match anchors at the start of the value, need not reach its end, and
\* returns the first match in backtracking order (greedy: longest first).
\* A group that took no part in the match is None: [some |-> FALSE].
NoGroup == [some |-> FALSE, s |-> <<>>]
Group(s) == [some |-> TRUE, s |-> s]
NoMatch == [ok |-> FALSE, groups |-> <<>>]

ClsMatches(cls, ch) == cls = "." \/ cls = ch

\* Longest run of characters of class cls in v after position p, capped at lim.
RECURSIVE RunLength(_, _, _, _)
RunLength(v, p, cls, lim) ==
    IF lim = 0 \/ p >= Len(v) \/ ~ClsMatches(cls, v[p + 1]) THEN 0
    ELSE 1 + RunLength(v, p + 1, cls, lim - 1)

\* The groups an atom that consumed n characters after position p contributes.
AtomGroups(atom, v, p, n) ==
    CASE atom.cap = "no" -> <<>>
      [] atom.cap = "in" -> <<Group(SubSeq(v, p + 1, p + n))>>
      [] atom.cap = "out" -> IF n = 0 THEN <<NoGroup>> ELSE <<Group(<<v[p + n]>>)>>

RECURSIVE MatchFrom(_, _, _, _, _)
RECURSIVE TryCount(_, _, _, _, _, _, _)
\* Match atoms i.. of pat against v from position p, having collected groups.
MatchFrom(pat, i, v, p, groups) ==
    IF i > Len(pat) THEN [ok |-> TRUE, groups |-> groups]
    ELSE LET atom == pat[i]
             most == IF atom.q = "one" THEN 1
                     ELSE IF atom.q = "opt" THEN RunLength(v, p, atom.cls, 1)
                     ELSE RunLength(v, p, atom.cls, Len(v))
             least == IF atom.q = "one" THEN 1 ELSE 0
         IN  IF atom.q = "one" /\ RunLength(v, p, atom.cls, 1) = 0 THEN NoMatch
             ELSE TryCount(pat, i, v, p, groups, most, least)
\* Atom i consumes n characters; on failure of the rest, backtrack to n - 1.
TryCount(pat, i, v, p, groups, n, least) ==
    LET rest == MatchFrom(pat, i + 1, v, p + n, groups \o AtomGroups(pat[i], v, p, n))
    IN  IF rest.ok THEN rest
        ELSE IF n > least THEN TryCount(pat, i, v, p, groups, n - 1, least)
        ELSE NoMatch

\* re.compile(regex).match(value)
ReMatch(pat, v) == MatchFrom(pat, 1, v, 0, <<>>)

(***************************************************************************)
(* join.py: apply_transform_fn, apply_transforms_fn                        *)
(***************************************************************************)
NoRegex == [some |-> FALSE, pat |-> <<>>]
Regex(pat) == [some |-> TRUE, pat |-> pat]

\* First element of groups that is not None, as the for loop finds it.
RECURSIVE FirstGroup(_, _)
FirstGroup(groups, i) ==
    IF i > Len(groups) THEN NoGroup
    ELSE IF groups[i].some THEN groups[i]
    ELSE FirstGroup(groups, i + 1)

\* First element of groups that is neither None nor the empty string.
RECURSIVE FirstNonEmptyGroup(_, _)
FirstNonEmptyGroup(groups, i) ==
    IF i > Len(groups) THEN NoGroup
    ELSE IF groups[i].some /\ groups[i].s # <<>> THEN groups[i]
    ELSE FirstNonEmptyGroup(groups, i + 1)

\* A transform that skips the groups that captured the empty string.
apply_transform_nonempty(value, transform) ==
    IF transform.regex.some
    THEN LET match == ReMatch(transform.regex.pat, value)
         IN  IF ~match.ok THEN value
             ELSE LET g == FirstNonEmptyGroup(match.groups, 1)
                  IN  IF g.some THEN g.s ELSE value
    ELSE value

apply_transform_fn(value, transform) ==
    IF transform.regex.some
    THEN LET match == ReMatch(transform.regex.pat, value)
         IN  IF ~match.ok THEN value
             ELSE LET g == FirstGroup(match.groups, 1)
                  IN  IF g.some THEN g.s ELSE value
    ELSE value

RECURSIVE ApplyFrom(_, _, _)
ApplyFrom(value, transforms, i) ==
    IF i > Len(transforms) THEN value
    ELSE ApplyFrom(apply_transform_fn(value, transforms[i]), transforms, i + 1)

NoSource == [some |-> FALSE, reference |-> <<>>, apply_transform |-> <<>>]

apply_transforms_fn(value, source) ==
    IF ~source.some THEN value
    ELSE ApplyFrom(value, source.apply_transform, 1)

(***************************************************************************)
(* Tables (pd.DataFrame).  A table has the uid of the node whose operation *)
(* produced it, its columns, and its rows; a row maps each column to a     *)
(* value.  The uid of an operation's node is a number.                     *)
(***************************************************************************)
Cols == {"x", "y"}
ColSets == {{"x"}, {"y"}, {"x", "y"}}
\* The key values of the tables: "ab" and "b".
Vals == {<<"a", "b">>, <<"b">>}
\* pandas fills the right-side columns of an unmatched left row with NaN.
NaN == <<"NaN">>

RECURSIVE SeqsUpTo(_, _)
SeqsUpTo(S, n) ==
    IF n = 0 THEN {<<>>}
    ELSE LET shorter == SeqsUpTo(S, n - 1)
         IN  shorter \cup {Append(s, e) : s \in shorter, e \in S}

Tables(node) ==
    UNION {{[node |-> node, cols |-> cs, rows |-> rs] :
                rs \in SeqsUpTo([cs -> Vals], MaxRows)} : cs \in ColSets}

\* What a predecessor beyond the second produced: Join never reads it.
ExtraTable(node) ==
    [node |-> node, cols |-> {"x"}, rows |-> <<[c \in {"x"} |-> <<"b">>]>>]

\* The regular expressions a(.*) and (a)b
StripA == <<[cls |-> "a", q |-> "one", cap |-> "no"],
            [cls |-> ".", q |-> "star", cap |-> "in"]>>
TakeA  == <<[cls |-> "a", q |-> "one", cap |-> "in"],
            [cls |-> "b", q |-> "one", cap |-> "no"]>>
TransformLists ==
    {<<>>,
     <<[regex |-> Regex(StripA)], [regex |-> Regex(TakeA)]>>,
     <<[regex |-> Regex(TakeA)], [regex |-> Regex(StripA)]>>}

Source(reference, transforms) ==
    [some |-> TRUE, reference |-> reference, apply_transform |-> transforms]

\* The left source refers to node 1, the right source to node 2.  A reference
\* is (node, column); the left one may carry a third component.
LeftSources ==
    {NoSource}
    \cup {Source(<<1, c>>, ts) : c \in Cols, ts \in TransformLists}
    \cup {Source(<<1, c, "x">>, <<>>) : c \in Cols}
RightSources == {NoSource} \cup {Source(<<2, c>>, <<>>) : c \in Cols}

(***************************************************************************)
(* join.py: Join.__call__                                                  *)
(***************************************************************************)
NoTable == [node |-> 0, cols |-> {}, rows |-> <<>>]
\* How a call ended.  kind is "none" (not called), "same" (the one input was
\* returned: table), "merged" (rows: one [l, r] pair per row of the merge)
\* or "error" (err, and for a missing column the column and node the message
\* names).
Outcome(kind, table, rows, err, column, node) ==
    [kind |-> kind, table |-> table, rows |-> rows, err |-> err,
     column |-> column, node |-> node]
NotCalled == Outcome("none", NoTable, <<>>, "", "", 0)
Returned(table) == Outcome("same", table, <<>>, "", "", 0)
Merged(rows) == Outcome("merged", NoTable, rows, "", "", 0)
Raised(err) == Outcome("error", NoTable, <<>>, err, "", 0)
ColumnMissing(column, node) ==
    Outcome("error", NoTable, <<>>, "AssertionError: column does not exist", column, node)

\* Lines 54-56: the operands in the roles the call gives them.
JoinRoles(tabs, left_key, right_key) ==
    IF left_key \notin tabs[1].cols \/ right_key \notin tabs[2].cols
    THEN <<tabs[2], tabs[1]>>
    ELSE <<tabs[1], tabs[2]>>

\* Lines 68-70: df_left[left_key] = df_left[left_key].transform(...)
TransformKey(rows, left_key, source) ==
    [i \in 1..Len(rows) |->
        [rows[i] EXCEPT ![left_key] = apply_transforms_fn(rows[i][left_key], source)]]

\* The rows of df_right whose key equals k, in order.
RECURSIVE Matches(_, _, _, _)
Matches(rrows, right_key, k, j) ==
    IF j > Len(rrows) THEN <<>>
    ELSE (IF rrows[j][right_key] = k THEN <<rrows[j]>> ELSE <<>>)
         \o Matches(rrows, right_key, k, j + 1)

\* The merge with how="inner": a left row without a match is dropped.
RECURSIVE MergeInner(_, _, _, _, _)
MergeInner(lrows, rtable, left_key, right_key, i) ==
    IF i > Len(lrows) THEN <<>>
    ELSE LET found == Matches(rtable.rows, right_key, lrows[i][left_key], 1)
         IN  [j \in 1..Len(found) |-> [l |-> lrows[i], r |-> found[j]]]
             \o MergeInner(lrows, rtable, left_key, right_key, i + 1)

\* Lines 71-73: df_left.merge(df_right, left_on, right_on, how="left")
RECURSIVE MergeLeft(_, _, _, _, _)
MergeLeft(lrows, rtable, left_key, right_key, i) ==
    IF i > Len(lrows) THEN <<>>
    ELSE LET found == Matches(rtable.rows, right_key, lrows[i][left_key], 1)
             these == IF found = <<>>
                      THEN <<[l |-> lrows[i], r |-> [c \in rtable.cols |-> NaN]]>>
                      ELSE [j \in 1..Len(found) |-> [l |-> lrows[i], r |-> found[j]]]
         IN  these \o MergeLeft(lrows, rtable, left_key, right_key, i + 1)

NoWrite(ended) == [out |-> ended, inplace |-> 0, rows |-> <<>>]

\* Lines 41-73: the branch for two inputs.  The result says how the call
\* ended and which table it wrote to on the way (inplace: the node of the
\* table, 0 for none; rows: the table's rows after the write).
JoinTwo(tabs, l, r) ==
    IF ~l.some THEN NoWrite(Raised("AssertionError: left reference is None"))
    ELSE IF ~r.some THEN NoWrite(Raised("AssertionError: right reference is None"))
    ELSE
        LET left_key == l.reference[2]
            right_key == r.reference[2]
            roles == JoinRoles(tabs, left_key, right_key)
            df_left == roles[1]
            df_right == roles[2]
        IN  IF Len(l.reference) # 2 THEN
                NoWrite(Raised("AssertionError: JOIN operation does not define a column name"))
            ELSE IF left_key \notin df_left.cols THEN
                NoWrite(ColumnMissing(left_key, l.reference[1]))
            ELSE IF right_key \notin df_right.cols THEN
                NoWrite(ColumnMissing(right_key, r.reference[1]))
            ELSE
                LET keyed == TransformKey(df_left.rows, left_key, l)
                IN  [out |-> Merged(MergeLeft(keyed, df_right, left_key, right_key, 1)),
                     inplace |-> df_left.node, rows |-> keyed]

\* A Join that refuses a single input as it refuses any other count but two.
JoinCallOnlyTwo(tabs, l, r) ==
    IF Len(tabs) = 2 THEN JoinTwo(tabs, l, r)
    ELSE NoWrite(Raised("NotImplementedError"))

\* Join.__call__(*tabs, left=l, right=r)
JoinCall(tabs, l, r) ==
    IF Len(tabs) = 1 THEN NoWrite(Returned(tabs[1]))
    ELSE IF Len(tabs) = 2 THEN JoinTwo(tabs, l, r)
    ELSE NoWrite(Raised("NotImplementedError"))

\* The executor hands Join the cached results of its k predecessors, nodes
\* 1..k, in one of the orders a topological sort can give.
Reverse(s) == [i \in 1..Len(s) |-> s[Len(s) + 1 - i]]
ArgOrders(k) == {[i \in 1..k |-> i], Reverse([i \in 1..k |-> i])}
TablesOf(c, uids) == [i \in 1..Len(uids) |-> c[uids[i]]]

ExecJoin ==
    /\ out = NotCalled
    /\ \E k \in 0..MaxArgs : \E order \in ArgOrders(k) :
        LET call == JoinCall(TablesOf(cache, order), left, right)
        IN  /\ args' = order
            /\ out' = call.out
            /\ cache' = IF call.inplace = 0 THEN cache
                        ELSE [cache EXCEPT ![call.inplace].rows = call.rows]
    /\ UNCHANGED <<left, right, rxVars, catVars, valVars, dateVars, dctVars>>

Idle == <<>>

InitJoin ==
    /\ cache \in {[n \in 1..MaxArgs |->
                        IF n = 1 THEN a ELSE IF n = 2 THEN b ELSE ExtraTable(n)] :
                    a \in Tables(1), b \in Tables(2)}
    /\ left \in LeftSources
    /\ right \in RightSources
    /\ args = <<>>
    /\ out = NotCalled
    /\ rxValue = Idle /\ rxTransform = Idle /\ rxOut = Idle
    /\ paths = Idle /\ catOut = Idle
    /\ doc = Idle /\ issues = Idle /\ pos = 0 /\ resolved = Idle /\ outcome = Idle
    /\ dateValue = Idle /\ dateParse = Idle /\ dateOut = Idle
    /\ dctIn = Idle /\ dct = Idle /\ cleaned = FALSE

NextJoin == ExecJoin
SpecJoin == InitJoin /\ [][NextJoin]_vars

(***************************************************************************)
(* apply_transform_fn on its own: every value and every pattern within the *)
(* bounds.                                                                 *)
(***************************************************************************)
Atoms ==
    {[cls |-> c, q |-> q, cap |-> cap] :
        c \in Chars \cup {"."}, q \in {"one", "star", "opt"}, cap \in {"no", "in"}}
    \cup {[cls |-> c, q |-> q, cap |-> "out"] :
        c \in Chars \cup {"."}, q \in {"star", "opt"}}
Patterns(n) == SeqsUpTo(Atoms, n)
Transforms(n) == {[regex |-> NoRegex]} \cup {[regex |-> Regex(p)] : p \in Patterns(n)}

NotApplied == [done |-> FALSE, value |-> <<>>]

ApplyTransform ==
    /\ rxOut = NotApplied
    /\ rxOut' = [done |-> TRUE, value |-> apply_transform_fn(rxValue, rxTransform)]
    /\ UNCHANGED <<rxValue, rxTransform, joinVars, catVars, valVars, dateVars, dctVars>>

InitRegex ==
    /\ rxValue \in StringsUpTo(MaxValueLen)
    /\ rxTransform \in Transforms(MaxAtoms)
    /\ rxOut = NotApplied
    /\ cache = Idle /\ left = Idle /\ right = Idle /\ args = Idle /\ out = Idle
    /\ paths = Idle /\ catOut = Idle
    /\ doc = Idle /\ issues = Idle /\ pos = 0 /\ resolved = Idle /\ outcome = Idle
    /\ dateValue = Idle /\ dateParse = Idle /\ dateOut = Idle
    /\ dctIn = Idle /\ dct = Idle /\ cleaned = FALSE

NextRegex == ApplyTransform
SpecRegex == InitRegex /\ [][NextRegex]_vars

(***************************************************************************)
(* Properties of Join (SpecJoin).                                          *)
(***************************************************************************)
Called == out # NotCalled
TwoDeclared ==
    /\ Len(args) = 2
    /\ left.some /\ right.some
    /\ Len(left.reference) = 2 /\ Len(right.reference) = 2

SameResult(o1, o2) ==
    \/ o1.kind = "error" /\ o2.kind = "error"
    \/ o1.kind = "merged" /\ o2.kind = "merged" /\ o1.rows = o2.rows

\* C1: Join is order-independent: with a declared left and right source, the
\* call with (A, B) and the call with (B, A) both fail or both return the same
\* merged table.  Stated of the step that executes the Join: its outcome is
\* that of the call on the same cached tables in the other order.
C1_OrderIndependent ==
    [][(out = NotCalled /\ Len(args') = 2 /\ left.some /\ right.some
            /\ Len(left.reference) = 2 /\ Len(right.reference) = 2)
        => SameResult(out', JoinCall(TablesOf(cache, Reverse(args')), left, right).out)]_vars

\* C2 as stated: called with any number of inputs other than two, Join ends
\* in an error and returns no table.
C2_OnlyTwoOperands ==
    (Called /\ Len(args) # 2) => out.kind = "error"

\* C2, amended: with zero or with three or more inputs Join raises
\* NotImplementedError and returns no table; with one input it returns that
\* input, unchanged.
C2_OneOperandPassesThrough ==
    Called =>
        /\ Len(args) = 1 => out = Returned(cache[args[1]])
        /\ Len(args) \notin {1, 2} => out = Raised("NotImplementedError")
C2_Witness == Called /\ Len(args) = 3 /\ out.kind = "error"

\* The transforms of a source applied in declared order, last one outermost.
RECURSIVE InDeclaredOrder(_, _)
InDeclaredOrder(value, transforms) ==
    IF transforms = <<>> THEN value
    ELSE apply_transform_fn(
            InDeclaredOrder(value, SubSeq(transforms, 1, Len(transforms) - 1)),
            transforms[Len(transforms)])

RECURSIVE SumOver(_, _)
SumOver(f, n) == IF n = 0 THEN 0 ELSE f[n] + SumOver(f, n - 1)

\* df_left and df_right as they were before the call, for a merged outcome.
LeftOuterMerge(before, order, result) ==
    LET roles == JoinRoles(TablesOf(before, order), left.reference[2], right.reference[2])
        L == roles[1]
        R == roles[2]
        lk == left.reference[2]
        rk == right.reference[2]
        keyed == [i \in 1..Len(L.rows) |->
                    [L.rows[i] EXCEPT ![lk] = InDeclaredOrder(L.rows[i][lk], left.apply_transform)]]
        hits == [i \in 1..Len(L.rows) |->
                    Cardinality({j \in 1..Len(R.rows) : R.rows[j][rk] = keyed[i][lk]})]
        rowsOf == [i \in 1..Len(L.rows) |-> IF hits[i] = 0 THEN 1 ELSE hits[i]]
    IN  /\ \A i \in 1..Len(keyed) : \E n \in 1..Len(result) : result[n].l = keyed[i]
        /\ \A n \in 1..Len(result) : \E i \in 1..Len(keyed) : result[n].l = keyed[i]
        /\ \A n \in 1..Len(result) :
              LET matching == {j \in 1..Len(R.rows) : R.rows[j][rk] = result[n].l[lk]}
              IN  IF matching = {}
                  THEN \A c \in R.cols : result[n].r[c] = NaN
                  ELSE \E j \in matching : result[n].r = R.rows[j]
        /\ \A i \in 1..Len(keyed) : \A j \in 1..Len(R.rows) :
              R.rows[j][rk] = keyed[i][lk]
                  => \E n \in 1..Len(result) : result[n] = [l |-> keyed[i], r |-> R.rows[j]]
        /\ Len(result) = SumOver(rowsOf, Len(L.rows))

\* C3: a successful two-operand Join is a left outer merge on the
\* transformed left key: every row of the left table is in the result, with
\* its key transformed in declared order; the right-side columns of a result
\* row are a right row with that key when there is one and empty otherwise;
\* and every result row comes from a left row.
C3_LeftOuterMerge ==
    [][(out = NotCalled /\ out'.kind = "merged")
        => LeftOuterMerge(cache, args', out'.rows)]_vars
C3_Witness ==
    /\ out.kind = "merged"
    /\ Len(left.apply_transform) = 2
    /\ \E n \in 1..Len(out.rows) : \E c \in DOMAIN out.rows[n].r : out.rows[n].r[c] = NaN
    /\ \E n \in 1..Len(out.rows) : \E c \in DOMAIN out.rows[n].r : out.rows[n].r[c] # NaN
    /\ \E n \in 1..Len(out.rows) : out.rows[n].l[left.reference[2]] \notin Vals

\* C4: when a declared key column is missing from the table of the node it
\* was declared on, a two-operand Join fails, and the error names a column
\* and a node such that the column is missing from that node's table.
C4_MissingColumnNamed ==
    (Called /\ TwoDeclared
        /\ (\/ left.reference[2] \notin cache[left.reference[1]].cols
            \/ right.reference[2] \notin cache[right.reference[1]].cols))
    => /\ out.kind = "error"
       /\ out.node \in {left.reference[1], right.reference[1]}
       /\ out.column \notin cache[out.node].cols

\* C10: executing a Join leaves the cached results of its predecessors as
\* they were.
C10_InputsUnchanged == [][cache' = cache]_vars

(***************************************************************************)
(* Properties of apply_transform_fn (SpecRegex).                           *)
(***************************************************************************)
TookPart(groups) == {i \in 1..Len(groups) : groups[i].some}
NonEmpty(groups) == {i \in 1..Len(groups) : groups[i].some /\ groups[i].s # <<>>}
Least(S) == CHOOSE i \in S : \A j \in S : i <= j

\* C5 as stated: the transform returns the first non-empty capture group of
\* the match, and the value unchanged when the pattern does not match, has no
\* capture group or has no non-empty capture group, or when there is no regex.
C5_FirstNonEmptyGroup ==
    rxOut.done =>
        LET m == ReMatch(rxTransform.regex.pat, rxValue)
        IN  rxOut.value =
                IF rxTransform.regex.some /\ m.ok /\ NonEmpty(m.groups) # {}
                THEN m.groups[Least(NonEmpty(m.groups))].s
                ELSE rxValue

\* C5, amended: the transform returns the first capture group that took part
\* in the match, also when that group captured the empty string; it returns
\* the value unchanged when the pattern does not match, has no capture group,
\* or none of its groups took part in the match, or when there is no regex.
C5_FirstGroupOfMatch ==
    rxOut.done =>
        LET m == ReMatch(rxTransform.regex.pat, rxValue)
        IN  rxOut.value =
                IF rxTransform.regex.some /\ m.ok /\ TookPart(m.groups) # {}
                THEN m.groups[Least(TookPart(m.groups))].s
                ELSE rxValue
\* A match whose first group took no part in it and whose second one did.
C5_Witness ==
    /\ rxOut.done /\ rxTransform.regex.some
    /\ LET m == ReMatch(rxTransform.regex.pat, rxValue)
       IN  /\ m.ok /\ Len(m.groups) = 2
           /\ ~m.groups[1].some /\ m.groups[2].some /\ m.groups[2].s # <<>>
           /\ rxOut.value = m.groups[2].s /\ rxOut.value # rxValue

(***************************************************************************)
(* concatenate.py: Concatenate.__call__                                    *)
(*                                                                         *)
(* A Path has a filepath and a fullpath, which are path objects (sequences *)
(* of components), and a filename, which is a string (a sequence too).     *)
(***************************************************************************)
FileNames == {<<"f">>, <<"g">>}
PathObjects == FileNames \cup {<<"d">> \o n : n \in FileNames}
PathInputs == [filepath : PathObjects, filename : FileNames, fullpath : PathObjects]
PathLists(n) == SeqsUpTo(PathInputs, n)

\* os.fspath of a path object: its components, separated by "/".
RECURSIVE fspath(_)
fspath(path) ==
    IF Len(path) = 1 THEN <<path[1]>>
    ELSE <<path[1], "/">> \o fspath(Tail(path))

NotConcatenated == [kind |-> "none", error |-> <<>>, rows |-> <<>>]

\* pd.DataFrame(columns): row i holds the i-th element of every column.
DataFrame(columns, n) ==
    [i \in 1..n |-> [c \in DOMAIN columns |-> columns[c][i]]]

\* A Concatenate that leaves out the last path.
ConcatenateButLast(ps) ==
    IF ~(Len(ps) > 0)
    THEN [kind |-> "error", error |-> <<"AssertionError", "No path to concatenate.">>, rows |-> <<>>]
    ELSE LET columns ==
                [filepath |-> [i \in 1..Len(ps) - 1 |-> fspath(ps[i].filepath)],
                 filename |-> [i \in 1..Len(ps) - 1 |-> ps[i].filename],
                 fullpath |-> [i \in 1..Len(ps) - 1 |-> fspath(ps[i].fullpath)]]
         IN  [kind |-> "table", error |-> <<>>, rows |-> DataFrame(columns, Len(ps) - 1)]

Concatenate(ps) ==
    IF ~(Len(ps) > 0)
    THEN [kind |-> "error", error |-> <<"AssertionError", "No path to concatenate.">>, rows |-> <<>>]
    ELSE LET columns ==
                [filepath |-> [i \in 1..Len(ps) |-> fspath(ps[i].filepath)],
                 filename |-> [i \in 1..Len(ps) |-> ps[i].filename],
                 fullpath |-> [i \in 1..Len(ps) |-> fspath(ps[i].fullpath)]]
         IN  [kind |-> "table", error |-> <<>>, rows |-> DataFrame(columns, Len(ps))]

ExecConcatenate ==
    /\ catOut = NotConcatenated
    /\ catOut' = Concatenate(paths)
    /\ UNCHANGED <<paths, joinVars, rxVars, valVars, dateVars, dctVars>>

InitConcatenate ==
    /\ paths \in PathLists(MaxPaths)
    /\ catOut = NotConcatenated
    /\ cache = Idle /\ left = Idle /\ right = Idle /\ args = Idle /\ out = Idle
    /\ rxValue = Idle /\ rxTransform = Idle /\ rxOut = Idle
    /\ doc = Idle /\ issues = Idle /\ pos = 0 /\ resolved = Idle /\ outcome = Idle
    /\ dateValue = Idle /\ dateParse = Idle /\ dateOut = Idle
    /\ dctIn = Idle /\ dct = Idle /\ cleaned = FALSE

NextConcatenate == ExecConcatenate
SpecConcatenate == InitConcatenate /\ [][NextConcatenate]_vars

\* The text of a path object, component by component.
PathText(path) ==
    [i \in 1..(2 * Len(path) - 1) |-> IF i % 2 = 1 THEN path[(i + 1) \div 2] ELSE "/"]

\* C6: Concatenate with no path fails with "No path to concatenate."; with
\* k >= 1 paths it returns a table of exactly k rows, row i holding the
\* filepath, filename and fullpath of the i-th path, none of them empty.
C6_OneRowPerPath ==
    catOut.kind # "none" =>
        IF Len(paths) = 0
        THEN catOut.kind = "error" /\ catOut.error[2] = "No path to concatenate."
        ELSE /\ catOut.kind = "table"
             /\ Len(catOut.rows) = Len(paths)
             /\ \A i \in 1..Len(paths) :
                   /\ DOMAIN catOut.rows[i] = {"filepath", "filename", "fullpath"}
                   /\ catOut.rows[i].filepath = PathText(paths[i].filepath)
                   /\ catOut.rows[i].filename = paths[i].filename
                   /\ catOut.rows[i].fullpath = PathText(paths[i].fullpath)
                   /\ \A c \in DOMAIN catOut.rows[i] : catOut.rows[i][c] # <<>>
C6_Witness ==
    /\ catOut.kind = "table" /\ Len(catOut.rows) = 2
    /\ catOut.rows[1] # catOut.rows[2]
    /\ Len(catOut.rows[1].filepath) = 3

(***************************************************************************)
(* Structure graph: a document is a dataset name and a sequence of nodes.  *)
(* A node is a FileSet or a Field; a property that the document leaves out *)
(* has the dataclass default "", and a Field without a declared data type  *)
(* has field_data_type None.  preds lists the node's predecessors in the   *)
(* graph in the order graph.predecessors gives them; an edge goes from an  *)
(* earlier node to a later one, so the graph is acyclic.                   *)
(***************************************************************************)
NoDataType == [some |-> FALSE, s |-> ""]
DataTypes == {NoDataType, [some |-> TRUE, s |-> "https://schema.org/Text"]}
\* description: str | None = None
NoDescription == [some |-> FALSE, s |-> ""]
Descriptions == {NoDescription, [some |-> TRUE, s |-> "d"]}
Present(value) == {"", value}

\* Sequences of distinct elements of S, of length n at most.
DistinctSeqs(S, n) ==
    {q \in SeqsUpTo(S, n) : \A i, j \in 1..Len(q) : i # j => q[i] # q[j]}

FileSetNodes ==
    [type : {"FileSet"}, name : Present("a-file-set"), includes : Present("*.csv"),
     encoding_format : Present("text/csv"), field_data_type : {NoDataType},
     description : {NoDescription}, preds : {<<>>}]
FieldNodes(earlier) ==
    [type : {"Field"}, name : Present("a-field"), includes : {""},
     encoding_format : {""}, field_data_type : DataTypes,
     description : Descriptions,
     preds : DistinctSeqs(earlier, MaxPreds)]

RECURSIVE NodeLists(_)
NodeLists(n) ==
    IF n = 0 THEN {<<>>}
    ELSE {Append(ns, node) : ns \in {l \in NodeLists(n - 1) : Len(l) = n - 1},
                             node \in FileSetNodes \cup FieldNodes(1..(n - 1))}
         \cup NodeLists(n - 1)

Documents(n) ==
    [name : {"mydataset"}, record_set : {"a-record-set"}, nodes : NodeLists(n)]

\* The breadcrumb of a node: its ancestor chain, each with its name.
Breadcrumb(d, i) ==
    IF d.nodes[i].type = "FileSet"
    THEN <<<<"dataset", d.name>>, <<"distribution", d.nodes[i].name>>>>
    ELSE <<<<"dataset", d.name>>, <<"record_set", d.record_set>>,
           <<"field", d.nodes[i].name>>>>

\* The name a property has in the document.
PropertyUrl(property) ==
    CASE property = "name" -> "https://schema.org/name"
      [] property = "includes" -> "http://mlcommons.org/schema/includes"
      [] property = "encoding_format" -> "https://schema.org/encodingFormat"
      [] property = "description" -> "https://schema.org/description"

\* An entry of the Issue Log: an error or a warning, with its context.
Issue(level, context, problem, property) ==
    [level |-> level, context |-> context, problem |-> problem, property |-> property]

\* Node.add_error for "Property ... is mandatory, but does not exist."
MandatoryIssue(d, i, property) ==
    Issue("error", Breadcrumb(d, i), "is mandatory, but does not exist",
          PropertyUrl(property))

\* Node.assert_has_mandatory_properties(*properties): the issues it adds.
RECURSIVE assert_has_mandatory_properties(_, _, _)
assert_has_mandatory_properties(d, i, properties) ==
    IF properties = <<>> THEN <<>>
    ELSE (IF d.nodes[i][Head(properties)] = ""
          THEN <<MandatoryIssue(d, i, Head(properties))>> ELSE <<>>)
         \o assert_has_mandatory_properties(d, i, Tail(properties))

\* Node.add_warning for "Property ... is recommended, but does not exist."
OptionalIssue(d, i, property) ==
    Issue("warning", Breadcrumb(d, i), "is recommended, but does not exist",
          PropertyUrl(property))

\* Node.assert_has_optional_properties(*properties): the issues it adds.
RECURSIVE assert_has_optional_properties(_, _, _)
assert_has_optional_properties(d, i, properties) ==
    IF properties = <<>> THEN <<>>
    ELSE (IF ~d.nodes[i][Head(properties)].some
          THEN <<OptionalIssue(d, i, Head(properties))>> ELSE <<>>)
         \o assert_has_optional_properties(d, i, Tail(properties))

\* A FileSet whose name is not mandatory.
FileSetMandatoryButName == <<"includes", "encoding_format">>
\* file_set.py, FileSet.check
FileSetMandatory == <<"includes", "encoding_format", "name">>
\* field.py, Field.check
FieldMandatory == <<"name">>
FieldOptional == <<"description">>

check(d, i) ==
    IF d.nodes[i].type = "FileSet"
    THEN assert_has_mandatory_properties(d, i, FileSetMandatory)
    ELSE assert_has_mandatory_properties(d, i, FieldMandatory)
         \o assert_has_optional_properties(d, i, FieldOptional)

\* constants.ML_COMMONS_DATA_TYPE
ML_COMMONS_DATA_TYPE == "http://mlcommons.org/schema/dataType"

\* field.py, Field.data_type of node i: the type, and the issues add_error
\* added on the way (on the node at which the walk stopped).
RECURSIVE data_type(_, _)
data_type(d, i) ==
    LET self == d.nodes[i]
    IN  IF self.field_data_type.some
        THEN [type |-> self.field_data_type, issues |-> <<>>]
        ELSE LET parent == IF self.preds = <<>> THEN 0 ELSE self.preds[1]
             IN  IF parent = 0 \/ d.nodes[parent].type # "Field"
                 THEN [type |-> NoDataType,
                       issues |-> <<Issue("error", Breadcrumb(d, i),
                                          "does not specify any, neither does any of its predecessor",
                                          ML_COMMONS_DATA_TYPE)>>]
                 ELSE data_type(d, parent)

(***************************************************************************)
(* The validation pass of Dataset(file), and scripts/validate.py around it *)
(***************************************************************************)
NotEnded == [exit |-> -1, level |-> "", logged |-> <<>>]

\* Dataset(file) once every node was handled: if the log holds an error it
\* raises one ValidationError that carries every issue of the log, else it
\* returns.
HasErrors(log) == \E k \in 1..Len(log) : log[k].level = "error"
DatasetResult(log) ==
    IF HasErrors(log) THEN [raised |-> "ValidationError", message |-> log]
    ELSE [raised |-> "", message |-> <<>>]

\* A main that logs the error and goes on to end as after a success.
mainSwallows(result) ==
    IF result.raised = "ValidationError"
    THEN [exit |-> 0, level |-> "error", logged |-> result.message]
    ELSE [exit |-> 0, level |-> "info", logged |-> <<"Done.">>]

\* validate.py, main: the try/except around Dataset(file)
main(result) ==
    IF result.raised = "ValidationError"
    THEN [exit |-> 1, level |-> "error", logged |-> result.message]
    ELSE [exit |-> 0, level |-> "info", logged |-> <<"Done.">>]

\* The pass handles the next node: check(), and for a Field its data_type.
CheckNode ==
    /\ outcome = NotEnded
    /\ pos < Len(doc.nodes)
    /\ LET i == pos + 1
           typed == IF doc.nodes[i].type = "Field" THEN data_type(doc, i)
                    ELSE [type |-> NoDataType, issues |-> <<>>]
       IN  /\ issues' = issues \o check(doc, i) \o typed.issues
           /\ resolved' = Append(resolved, typed)
    /\ pos' = pos + 1
    /\ UNCHANGED <<doc, outcome, joinVars, rxVars, catVars, dateVars, dctVars>>

\* The pass is over: Dataset(file) raises or returns, and main ends.
Finish ==
    /\ outcome = NotEnded
    /\ pos = Len(doc.nodes)
    /\ outcome' = main(DatasetResult(issues))
    /\ UNCHANGED <<doc, issues, pos, resolved, joinVars, rxVars, catVars, dateVars, dctVars>>

InitValidate ==
    /\ doc \in Documents(MaxNodes)
    /\ issues = <<>>
    /\ pos = 0
    /\ resolved = <<>>
    /\ outcome = NotEnded
    /\ cache = Idle /\ left = Idle /\ right = Idle /\ args = Idle /\ out = Idle
    /\ rxValue = Idle /\ rxTransform = Idle /\ rxOut = Idle
    /\ paths = Idle /\ catOut = Idle
    /\ dateValue = Idle /\ dateParse = Idle /\ dateOut = Idle
    /\ dctIn = Idle /\ dct = Idle /\ cleaned = FALSE

NextValidate == CheckNode \/ Finish
SpecValidate == InitValidate /\ [][NextValidate]_vars

(***************************************************************************)
(* Properties of the validation pass (SpecValidate).                       *)
(***************************************************************************)
Logged(issue) == \E k \in 1..Len(issues) : issues[k] = issue
Ended == outcome # NotEnded

\* C7: a handled node that misses a mandatory property (a FileSet without
\* includes, encoding_format or name; a Field without name) has an issue in
\* the log that names the property and carries the breadcrumb of the node,
\* in which a missing name shows as an empty name; and validation fails.
C7_MandatoryReported ==
    \A i \in 1..pos :
        LET node == doc.nodes[i]
            mandatory == IF node.type = "FileSet"
                         THEN {"includes", "encoding_format", "name"}
                         ELSE {"name"}
            crumb == IF node.type = "FileSet"
                     THEN <<<<"dataset", "mydataset">>, <<"distribution", node.name>>>>
                     ELSE <<<<"dataset", "mydataset">>, <<"record_set", "a-record-set">>,
                            <<"field", node.name>>>>
        IN  \A property \in mandatory :
                node[property] = "" =>
                    /\ Logged([level |-> "error", context |-> crumb,
                               problem |-> "is mandatory, but does not exist",
                               property |-> PropertyUrl(property)])
                    /\ Ended => outcome.exit = 1
C7_Witness ==
    /\ Ended /\ outcome.exit = 1
    /\ \E i \in 1..pos :
          /\ doc.nodes[i].type = "FileSet" /\ doc.nodes[i].name = ""
          /\ Logged([level |-> "error",
                     context |-> <<<<"dataset", "mydataset">>, <<"distribution", "">>>>,
                     problem |-> "is mandatory, but does not exist",
                     property |-> "https://schema.org/name"])

\* The Fields from which node i can inherit: i itself and, transitively,
\* every predecessor that is a Field.
RECURSIVE FieldLine(_, _)
FieldLine(d, i) ==
    {i} \cup UNION {FieldLine(d, d.nodes[i].preds[k]) :
                        k \in {k \in 1..Len(d.nodes[i].preds) :
                                  d.nodes[d.nodes[i].preds[k]].type = "Field"}}
Declares(d, i) == d.nodes[i].field_data_type.some

\* C8: a handled Field resolves to its own declared data type when it has
\* one; it resolves to no type, with a "does not specify any dataType" issue
\* in the log, if and only if neither the Field nor any of its predecessor
\* Fields declares a data type.
C8_InheritsFromPredecessors ==
    \A i \in 1..pos :
        doc.nodes[i].type = "Field" =>
            /\ Declares(doc, i) => resolved[i].type = doc.nodes[i].field_data_type
            /\ ~resolved[i].type.some <=> \A g \in FieldLine(doc, i) : ~Declares(doc, g)
            /\ ~resolved[i].type.some <=>
                  /\ resolved[i].issues # <<>>
                  /\ \A k \in 1..Len(resolved[i].issues) :
                        /\ resolved[i].issues[k].property = ML_COMMONS_DATA_TYPE
                        /\ Logged(resolved[i].issues[k])

\* C9: validation collects and never fails fast: a step of the pass only
\* appends to the Issue Log, the run ends only when every node was handled,
\* and it ends in one ValidationError that lists every issue of the log if
\* and only if the log is not empty, and in a validated graph otherwise.
C9_CollectsThenFails ==
    [][/\ Len(issues') >= Len(issues)
       /\ SubSeq(issues', 1, Len(issues)) = issues
       /\ outcome' # NotEnded =>
            /\ pos' = Len(doc.nodes)
            /\ outcome'.exit = 1 <=> issues' # <<>>
            /\ outcome'.exit = 1 => outcome'.logged = issues' /\ outcome'.level = "error"
            /\ outcome'.exit # 1 => outcome' = [exit |-> 0, level |-> "info", logged |-> <<"Done.">>]
      ]_vars
\* C9, with failure tied to errors: a step of the pass only appends to the
\* Issue Log, the run ends only when every node was handled, and it ends in
\* one ValidationError that lists every issue of the log if and only if the
\* log holds an error; a log that is empty or holds only warnings (a Field
\* without the optional description) ends in a validated graph.
C9_FailsOnErrors ==
    [][/\ Len(issues') >= Len(issues)
       /\ SubSeq(issues', 1, Len(issues)) = issues
       /\ outcome' # NotEnded =>
            /\ pos' = Len(doc.nodes)
            /\ outcome'.exit = 1 <=> \E k \in 1..Len(issues') : issues'[k].level = "error"
            /\ outcome'.exit = 1 => outcome'.logged = issues' /\ outcome'.level = "error"
            /\ outcome'.exit # 1 => outcome' = [exit |-> 0, level |-> "info", logged |-> <<"Done.">>]
      ]_vars
C9_Witness ==
    /\ Ended /\ outcome.exit = 1 /\ pos = 3
    /\ Len(outcome.logged) >= 3
    /\ \E k \in 1..Len(outcome.logged) : outcome.logged[k].level = "warning"
    /\ outcome.logged[1].property = ML_COMMONS_DATA_TYPE
    /\ outcome.logged[Len(outcome.logged)].property = "https://schema.org/name"

(***************************************************************************)
(* openmlconverter: _lenient_date_parser (converter.py).                   *)
(***************************************************************************)
MaxDateLen == 4     \* characters of a collection_date written with DateChars

DateChars == {"0", "1", "2", "9", "x"}
Digits == {"0", "1", "2", "9"}
RECURSIVE DateStringsUpTo(_)
DateStringsUpTo(n) ==
    IF n = 0 THEN {<<>>}
    ELSE LET shorter == DateStringsUpTo(n - 1)
         IN  shorter \cup {Append(s, c) : s \in shorter, c \in DateChars}
\* "2000-01-01T00:00:00", the example of the docstring
IsoExample ==
    <<"2", "0", "0", "0", "-", "0", "1", "-", "0", "1", "T",
      "0", "0", ":", "0", "0", ":", "0", "0">>
DateValues(n) == DateStringsUpTo(n) \cup {IsoExample}

DigitValue(c) == CASE c = "0" -> 0 [] c = "1" -> 1 [] c = "2" -> 2 [] c = "9" -> 9
AllDigits(value) == \A i \in 1..Len(value) : value[i] \in Digits
\* int(value) of a string of digits
RECURSIVE int(_)
int(value) ==
    IF value = <<>> THEN 0
    ELSE 10 * int(SubSeq(value, 1, Len(value) - 1)) + DigitValue(value[Len(value)])
startswith(value, prefix) ==
    Len(value) >= Len(prefix) /\ SubSeq(value, 1, Len(prefix)) = prefix

\* dateutil.parser.parse(value), by how it ends: with a datetime or with a
\* ParserError.  The library fills what the string leaves out from today's
\* date, so a lone number is a day of the current month up to 31 and a year
\* above.  Day 0 and a year above 9999 are no date; whether day 29, 30 or 31
\* exists depends on the day of the run, so both ends are possible there.
ParsedDatetime == "datetime"
ParserError == "ParserError"
dateutil_parse(value) ==
    IF value = IsoExample THEN {ParsedDatetime}
    ELSE IF value = <<>> \/ ~AllDigits(value) THEN {ParserError}
    ELSE IF int(value) = 0 \/ int(value) > 9999 THEN {ParserError}
    ELSE IF int(value) \in 29..31 THEN {ParsedDatetime, ParserError}
    ELSE {ParsedDatetime}

NotParsed == [kind |-> "pending", year |-> 0, month |-> 0, day |-> 0, message |-> ""]
date(year, month, day) ==
    [kind |-> "date", year |-> year, month |-> month, day |-> day, message |-> ""]
ValueError(message) ==
    [kind |-> "ValueError", year |-> 0, month |-> 0, day |-> 0, message |-> message]

\* _lenient_date_parser(value); parsed is how dateutil.parser.parse(value)
\* ended.  The datetime of a successful parse is not returned and a
\* ParserError is passed over: either way the year test comes next.
lenient_date_parser(value, parsed) ==
    LET tried == IF parsed = ParserError THEN "pass" ELSE "dropped"
    IN  IF /\ tried \in {"pass", "dropped"}
           /\ Len(value) = 4
           /\ (startswith(value, <<"1", "9">>) \/ startswith(value, <<"2", "0">>))
        THEN IF AllDigits(value)
             THEN date(int(value), 1, 1)
             ELSE ValueError("invalid literal for int() with base 10")
        ELSE ValueError("Unknown date/datetime format")

LenientDateParser ==
    /\ dateOut = NotParsed
    /\ dateOut' = lenient_date_parser(dateValue, dateParse)
    /\ UNCHANGED <<dateValue, dateParse, joinVars, rxVars, catVars, valVars, dctVars>>

InitDate ==
    /\ dateValue \in DateValues(MaxDateLen)
    /\ dateParse \in dateutil_parse(dateValue)
    /\ dateOut = NotParsed
    /\ cache = Idle /\ left = Idle /\ right = Idle /\ args = Idle /\ out = Idle
    /\ rxValue = Idle /\ rxTransform = Idle /\ rxOut = Idle
    /\ paths = Idle /\ catOut = Idle
    /\ doc = Idle /\ issues = Idle /\ pos = 0 /\ resolved = Idle /\ outcome = Idle
    /\ dctIn = Idle /\ dct = Idle /\ cleaned = FALSE

NextDate == LenientDateParser
SpecDate == InitDate /\ [][NextDate]_vars

YearString(value) ==
    /\ Len(value) = 4 /\ AllDigits(value)
    /\ (startswith(value, <<"1", "9">>) \/ startswith(value, <<"2", "0">>))

\* C11: once _lenient_date_parser has ended, a four-character year string
\* starting with "19" or "20" gave the date January 1st of that year, every
\* other string the date parser can parse gave a datetime, and the ValueError
\* "Unknown date/datetime format" was raised only for a value that is neither.
C11_LenientDates ==
    dateOut # NotParsed =>
        /\ YearString(dateValue) => dateOut = date(int(dateValue), 1, 1)
        /\ (dateParse = ParsedDatetime /\ ~YearString(dateValue)) =>
               dateOut.kind = "datetime"
        /\ dateOut = ValueError("Unknown date/datetime format") =>
               (dateParse = ParserError /\ ~YearString(dateValue))

(***************************************************************************)
(* openmlconverter: _remove_empty_values (converter.py).                   *)
(***************************************************************************)
MaxDepth == 2       \* dictionaries nested in one another, the outer one included
MaxFields == 2      \* keys of one dictionary

\* A Python value is a record [kind, elems, fields]: elems are the elements
\* of a list, fields the items of a dictionary in their order, each an item
\* [key, value].
Keys == {"k1", "k2"}
None == [kind |-> "None", elems |-> <<>>, fields |-> <<>>]
Str == [kind |-> "str", elems |-> <<>>, fields |-> <<>>]
List(elems) == [kind |-> "list", elems |-> elems, fields |-> <<>>]
Dict(fields) == [kind |-> "dict", elems |-> <<>>, fields |-> fields]
Item(key, value) == [key |-> key, value |-> value]
Leaves == {None, Str, List(<<>>), List(<<"v">>)}

RECURSIVE ItemsOver(_, _)
ItemsOver(values, n) ==
    IF n = 0 THEN {<<>>}
    ELSE LET shorter == ItemsOver(values, n - 1)
         IN  shorter \cup
             {Append(f, Item(k, v)) :
                 f \in {g \in shorter : Len(g) = n - 1}, k \in Keys, v \in values}
DistinctKeys(fields) ==
    \A i, j \in 1..Len(fields) : fields[i].key = fields[j].key => i = j
RECURSIVE Dicts(_)
Dicts(depth) ==
    LET values == IF depth <= 1 THEN Leaves \cup {Dict(<<>>)}
                  ELSE Leaves \cup {Dict(f) : f \in Dicts(depth - 1)}
    IN  {f \in ItemsOver(values, MaxFields) : DistinctKeys(f)}

\* _remove_empty_values(dct_): what dct_ holds when the call returns.  The
\* loop runs over a snapshot of the items; a dictionary value is cleaned in
\* place and stays, None and an empty list are deleted.
RECURSIVE remove_empty_values(_)
remove_empty_values(fields) ==
    IF fields = <<>> THEN <<>>
    ELSE LET item == Head(fields)
             rest == remove_empty_values(Tail(fields))
         IN  IF item.value.kind = "dict"
             THEN <<Item(item.key, Dict(remove_empty_values(item.value.fields)))>> \o rest
             ELSE IF item.value = None
             THEN rest
             ELSE IF item.value.kind = "list" /\ Len(item.value.elems) = 0
             THEN rest
             ELSE <<item>> \o rest

RemoveEmptyValues ==
    /\ ~cleaned
    /\ dct' = remove_empty_values(dct)
    /\ cleaned' = TRUE
    /\ UNCHANGED <<dctIn, joinVars, rxVars, catVars, valVars, dateVars>>

InitRemove ==
    /\ dctIn \in Dicts(MaxDepth)
    /\ dct = dctIn
    /\ cleaned = FALSE
    /\ cache = Idle /\ left = Idle /\ right = Idle /\ args = Idle /\ out = Idle
    /\ rxValue = Idle /\ rxTransform = Idle /\ rxOut = Idle
    /\ paths = Idle /\ catOut = Idle
    /\ doc = Idle /\ issues = Idle /\ pos = 0 /\ resolved = Idle /\ outcome = Idle
    /\ dateValue = Idle /\ dateParse = Idle /\ dateOut = Idle

NextRemove == RemoveEmptyValues
SpecRemove == InitRemove /\ [][NextRemove]_vars

EmptyValue(value) == value = None \/ value = List(<<>>) \/ value = Dict(<<>>)
RECURSIVE NoEmptyValues(_)
NoEmptyValues(fields) ==
    \A i \in 1..Len(fields) :
        /\ ~EmptyValue(fields[i].value)
        /\ fields[i].value.kind = "dict" => NoEmptyValues(fields[i].value.fields)
RECURSIVE KeptWithValue(_, _)
KeptWithValue(before, after) ==
    \A i \in 1..Len(before) :
        ~EmptyValue(before[i].value) =>
            \E j \in 1..Len(after) :
                /\ after[j].key = before[i].key
                /\ after[j].value.kind = before[i].value.kind
                /\ IF before[i].value.kind = "dict"
                   THEN KeptWithValue(before[i].value.fields, after[j].value.fields)
                   ELSE after[j].value = before[i].value

\* C12: after _remove_empty_values(d) has returned, no key of d or of a
\* dictionary nested in d at any depth maps to None, to an empty list or to
\* an empty dictionary, and every key whose value was none of these is still
\* there with its value.
C12_NoEmptyValuesLeft ==
    cleaned => NoEmptyValues(dct) /\ KeptWithValue(dctIn, dct)

====
